---- MODULE Spec2Model ----
(***************************************************************************)
(* A model of pyem/star.py: the STAR table library (key inference and      *)
(* merge, header scan and parse, augmentation, simplification and write,   *)
(* recentering, class selection).                                          *)
(*                                                                         *)
(* Strings are sequences of atoms.  The characters the code inspects       *)
(* ("_", " ", "#", "@", "/", ".", "-" and the decimal digits) are atoms of *)
(* their own; any other atom stands for a run of letters.  A table         *)
(* (DataFrame) is a record [columns, rows]: the ordered column names and   *)
(* the ordered records, each a function from the column names to values.   *)
(***************************************************************************)
EXTENDS Integers, Sequences, FiniteSets, TLC

VARIABLES pc,
          s1, s2, fields, key, threshold, mk, merged,
          f, keep_index, resort_fields, simplify, ln, headers, df, snap, f2, df2,
          tbl, classes, inplace, res

vars == <<pc, s1, s2, fields, key, threshold, mk, merged,
          f, keep_index, resort_fields, simplify, ln, headers, df, snap, f2, df2,
          tbl, classes, inplace, res>>

mergeVars == <<s1, s2, fields, key, threshold, mk, merged>>
starVars == <<f, keep_index, resort_fields, simplify, ln, headers, df, snap, f2, df2>>
opVars == <<tbl, classes, inplace, res>>

\* The value of a variable a specification does not use, and Python's None.
None == [k |-> "None"]

MergeUnused ==
    /\ s1 = None /\ s2 = None /\ fields = None /\ key = None
    /\ threshold = None /\ mk = None /\ merged = None

StarUnused ==
    /\ f = None /\ keep_index = None /\ resort_fields = None /\ simplify = None
    /\ ln = None /\ headers = None
    /\ df = None /\ snap = None /\ f2 = None /\ df2 = None

OpUnused == tbl = None /\ classes = None /\ inplace = None /\ res = None

\* A missing value (NaN) of a column.
NaN == [k |-> "nan"]

\* A raised exception, as the result of a call.
Raised(e) == [k |-> "raised", err |-> e]
IsRaised(r) == r.k = "raised"

(***************************************************************************)
(* Sequences and strings.                                                  *)
(***************************************************************************)
Range(s) == {s[i] : i \in DOMAIN s}

RECURSIVE SeqsUpTo(_, _)
SeqsUpTo(S, n) ==
    IF n = 0 THEN {<<>>}
    ELSE LET shorter == SeqsUpTo(S, n - 1)
         IN shorter \cup {Append(s, x) : s \in {t \in shorter : Len(t) = n - 1}, x \in S}

\* sub in s, for strings: sub occurs in s as a contiguous run.
Contains(sub, s) ==
    \E i \in 1..(Len(s) - Len(sub) + 1) : SubSeq(s, i, i + Len(sub) - 1) = sub

\* the first position of atom a in s, or Len(s) + 1
FirstAt(a, s) ==
    IF \E i \in DOMAIN s : s[i] = a
    THEN CHOOSE i \in DOMAIN s : s[i] = a /\ \A j \in 1..(i - 1) : s[j] # a
    ELSE Len(s) + 1

\* the last position of atom a in s, or 0
LastAt(a, s) ==
    IF \E i \in DOMAIN s : s[i] = a
    THEN CHOOSE i \in DOMAIN s : s[i] = a /\ \A j \in (i + 1)..Len(s) : s[j] # a
    ELSE 0

\* s.split(a)[0]
SplitFirst(a, s) == SubSeq(s, 1, FirstAt(a, s) - 1)

\* s.lstrip(a)
RECURSIVE LStrip(_, _)
LStrip(a, s) == IF s # <<>> /\ Head(s) = a THEN LStrip(a, Tail(s)) ELSE s

\* s.rstrip(a)
RECURSIVE RStrip(_, _)
RStrip(a, s) ==
    IF s # <<>> /\ s[Len(s)] = a THEN RStrip(a, SubSeq(s, 1, Len(s) - 1)) ELSE s

\* s.strip(): leading and trailing white space removed
Strip(s) == RStrip(" ", LStrip(" ", s))

\* s.startswith(a)
StartsWith(a, s) == s # <<>> /\ Head(s) = a

(***************************************************************************)
(* class Relion, class UCSF: the field names.                              *)
(***************************************************************************)
MICROGRAPH_NAME == <<"rln", "MicrographName">>
IMAGE_NAME == <<"rln", "ImageName">>
IMAGE_ORIGINAL_NAME == <<"rln", "ImageOriginalName">>
COORDX == <<"rln", "CoordinateX">>
COORDY == <<"rln", "CoordinateY">>
ORIGINX == <<"rln", "OriginX">>
ORIGINY == <<"rln", "OriginY">>
CLASS == <<"rln", "Class", "Number">>
DEFOCUSU == <<"rln", "DefocusU">>
DEFOCUSV == <<"rln", "DefocusV">>
PHASESHIFT == <<"rln", "PhaseShift">>
COORDS == <<COORDX, COORDY>>
ORIGINS == <<ORIGINX, ORIGINY>>
MICROGRAPH_COORDS == <<MICROGRAPH_NAME>> \o COORDS

IMAGE_PATH == <<"ucsf", "ImagePath">>
IMAGE_BASENAME == <<"ucsf", "ImageBasename">>
IMAGE_INDEX == <<"ucsf", "ImageIndex">>
IMAGE_ORIGINAL_PATH == <<"ucsf", "ImageOriginalPath">>
IMAGE_ORIGINAL_BASENAME == <<"ucsf", "ImageOriginalBasename">>
IMAGE_ORIGINAL_INDEX == <<"ucsf", "ImageOriginalIndex">>
MICROGRAPH_BASENAME == <<"ucsf", "MicrographBasename">>

(***************************************************************************)
(* Tables.                                                                 *)
(***************************************************************************)
Table(cols, rows) == [k |-> "table", columns |-> cols, rows |-> rows]
IsTable(t) == t.k = "table"

\* c in df
HasColumn(t, c) == c \in Range(t.columns)

\* df.shape[0]
NRows(t) == Len(t.rows)

\* df[c] = values, a new column appended or an existing one overwritten
SetColumn(t, c, values) ==
    Table(IF HasColumn(t, c) THEN t.columns ELSE Append(t.columns, c),
          [i \in DOMAIN t.rows |->
              [d \in Range(t.columns) \cup {c} |->
                  IF d = c THEN values[i] ELSE t.rows[i][d]]])

\* df.drop(cs, axis=1)
DropColumns(t, cs) ==
    LET keep(c) == c \notin cs
    IN Table(SelectSeq(t.columns, keep),
             [i \in DOMAIN t.rows |->
                 [d \in Range(t.columns) \ cs |-> t.rows[i][d]]])

\* df.reindex(columns=cols), for cols a reordering of the columns
Reindex(t, cols) == Table(cols, t.rows)

(***************************************************************************)
(* Cell values: strings, numbers and the missing value.                    *)
(***************************************************************************)
Str(atoms) == [k |-> "str", s |-> atoms]
Num(n) == [k |-> "num", v |-> n]

Digits == <<"0", "1", "2", "3", "4", "5", "6", "7", "8", "9">>

\* str(n) for n >= 0: the decimal digits
RECURSIVE Decimal(_)
Decimal(n) == IF n < 10 THEN <<Digits[n + 1]>>
              ELSE Append(Decimal(n \div 10), Digits[(n % 10) + 1])

\* zero padding on the left up to width w
RECURSIVE ZeroPad(_, _)
ZeroPad(s, w) == IF Len(s) >= w THEN s ELSE ZeroPad(<<"0">> \o s, w)

\* "%.6d" % n, for n >= 0
IndexWidth == 6

\* a slip: "%d", no padding
FormatIndexUnpadded(n) == Decimal(n)

FormatIndex(n) == ZeroPad(Decimal(n), IndexWidth)

\* the number a run of decimal digits denotes
RECURSIVE DigitsValue(_)
DigitsValue(s) ==
    IF s = <<>> THEN 0
    ELSE 10 * DigitsValue(SubSeq(s, 1, Len(s) - 1))
         + (CHOOSE d \in 0..9 : Digits[d + 1] = s[Len(s)])

\* os.path.basename
Basename(s) == SubSeq(s, LastAt("/", s) + 1, Len(s))

(***************************************************************************)
(* merge_key and smart_merge                                               *)
(***************************************************************************)
\* a key: one field name, or a list of field names
KeyName(c) == [k |-> "name", name |-> c]
KeyList(cs) == [k |-> "list", names |-> cs]
KeyFields(ky) == IF ky.k = "name" THEN <<ky.name>> ELSE ky.names

\* s1.columns.intersection(s2.columns), as a set
Inter(t1, t2) == Range(t1.columns) \cap Range(t2.columns)

\* Counter(s1[c])[v]
Count(t, c, v) == Cardinality({i \in DOMAIN t.rows : t.rows[i][c] = v})

RECURSIVE SumOver(_, _, _, _)
SumOver(S, t, c, acc) ==
    IF S = {} THEN acc
    ELSE LET v == CHOOSE x \in S : TRUE
         IN SumOver(S \ {v}, t, c, acc + Count(t, c, v))

\* a slip: the sum runs over the list s2[c], not over set(s2[c])
SharedOverList(t1, t2, c) ==
    Cardinality({ij \in (DOMAIN t1.rows) \X (DOMAIN t2.rows) :
                    t1.rows[ij[1]][c] = t2.rows[ij[2]][c]})

\* c = Counter(s1[c]); shared = sum(c[i] for i in set(s2[c]))
Shared(t1, t2, c) == SumOver({t2.rows[i][c] : i \in DOMAIN t2.rows}, t1, c, 0)

\* shared >= s1.shape[0] * threshold, the threshold a ratio num/den
Covers(t1, t2, c, th) == Shared(t1, t2, c) * th.den >= NRows(t1) * th.num

merge_key(t1, t2, th) ==
    LET inter == Inter(t1, t2)
        mgraph_coords == inter \cap Range(MICROGRAPH_COORDS)
        can_merge_mgraph_name ==
            MICROGRAPH_NAME \in mgraph_coords /\ Covers(t1, t2, MICROGRAPH_NAME, th)
    IN  IF inter = {} THEN None
        ELSE IF IMAGE_NAME \in inter /\ Covers(t1, t2, IMAGE_NAME, th)
             THEN KeyName(IMAGE_NAME)
        ELSE IF IMAGE_BASENAME \in inter /\ Covers(t1, t2, IMAGE_BASENAME, th)
             THEN KeyList(<<IMAGE_BASENAME, IMAGE_INDEX>>)
        ELSE IF /\ MICROGRAPH_NAME \in mgraph_coords
                /\ can_merge_mgraph_name
                /\ mgraph_coords \cap Range(COORDS) # {}
             THEN KeyList(MICROGRAPH_COORDS)
        ELSE IF MICROGRAPH_NAME \in mgraph_coords /\ can_merge_mgraph_name
             THEN KeyName(MICROGRAPH_NAME)
        ELSE IF MICROGRAPH_BASENAME \in inter /\ Covers(t1, t2, MICROGRAPH_BASENAME, th)
             THEN KeyName(MICROGRAPH_BASENAME)
        ELSE None

\* merge_key's default threshold, 0.5
DefaultThreshold == [num |-> 1, den |-> 2]

\* suffixes=["_x", ""]: the suffix of a colliding column of the left table,
\* and of the right table
MergeSuffixesSwapped == <<<<>>, <<"_", "x">>>>
MergeSuffixes == <<<<"_", "x">>, <<>>>>

\* the key values of a record
KeyOf(r, cs) == [j \in DOMAIN cs |-> r[cs[j]]]

RECURSIVE Flatten(_)
Flatten(ss) == IF ss = <<>> THEN <<>> ELSE Head(ss) \o Flatten(Tail(ss))

\* left.merge(right, left_on=cs, right_index=True, suffixes=MergeSuffixes),
\* how="inner" by default; index holds the index value of each record of right
PdMerge(left, right, index, cs) ==
    LET both == Range(left.columns) \cap Range(right.columns)
        lname(c) == IF c \in both THEN c \o MergeSuffixes[1] ELSE c
        rname(c) == IF c \in both THEN c \o MergeSuffixes[2] ELSE c
        lcols == [j \in DOMAIN left.columns |-> lname(left.columns[j])]
        rcols == [j \in DOMAIN right.columns |-> rname(right.columns[j])]
        joined(l, r) ==
            [c \in Range(lcols) \cup Range(rcols) |->
                IF \E j \in DOMAIN rcols : rcols[j] = c
                THEN r[right.columns[CHOOSE j \in DOMAIN rcols : rcols[j] = c]]
                ELSE l[left.columns[CHOOSE j \in DOMAIN lcols : lcols[j] = c]]]
        matches(l) ==
            LET at == SelectSeq([j \in DOMAIN right.rows |-> j],
                                LAMBDA j : index[j] = KeyOf(l, cs))
            IN [n \in DOMAIN at |-> joined(l, right.rows[at[n]])]
    IN  Table(lcols \o rcols,
              Flatten([i \in DOMAIN left.rows |-> matches(left.rows[i])]))

\* t[cols].fillna(other): pandas aligns other on the column labels (and on the
\* record labels), so a missing cell of column c is filled from other's column
\* of the same name c, and stays missing when other has no such column
FillNa(t, cols, other) ==
    Table(cols,
          [i \in DOMAIN t.rows |->
              [c \in Range(cols) |->
                  IF t.rows[i][c] = NaN /\ HasColumn(other, c)
                  THEN other.rows[i][c] ELSE t.rows[i][c]]])

\* t[cols]
Project(t, cols) ==
    Table(cols, [i \in DOMAIN t.rows |-> [c \in Range(cols) |-> t.rows[i][c]]])

\* t[cols] = values
Assign(t, cols, values) ==
    Table(t.columns \o SelectSeq(cols, LAMBDA c : ~HasColumn(t, c)),
          [i \in DOMAIN t.rows |->
              [c \in Range(t.columns) \cup Range(cols) |->
                  IF c \in Range(cols) THEN values.rows[i][c] ELSE t.rows[i][c]]])

smart_merge(t1, t2, flds, ky, lkey) ==
    LET key1 == IF ky = None THEN merge_key(t1, t2, DefaultThreshold) ELSE ky
        left_key == IF lkey = None THEN key1 ELSE lkey
    IN  \* s2.set_index(key, drop=False)
        IF key1 = None \/ ~(Range(KeyFields(key1)) \subseteq Range(t2.columns))
        THEN Raised("KeyError")
        ELSE IF ~(Range(KeyFields(left_key)) \subseteq Range(t1.columns))
        THEN Raised("KeyError")
        ELSE
        LET index == [j \in DOMAIN t2.rows |-> KeyOf(t2.rows[j], KeyFields(key1))]
            right == Project(t2, SelectSeq(t2.columns, LAMBDA c : c \in Range(flds)))
            m == PdMerge(t1, right, index, KeyFields(left_key))
            x == SelectSeq(m.columns, LAMBDA c : Contains(<<"_", "x">>, c))
            y == [j \in DOMAIN x |-> SplitFirst("_", x[j])]
        IN  IF Len(x) > 0
            THEN IF ~(Range(y) \subseteq Range(m.columns)) THEN Raised("KeyError")
                 ELSE DropColumns(Assign(m, y, FillNa(m, y, Project(m, x))), Range(x))
            ELSE m

\* The inputs.  A particle is a record over every field; a table holds some
\* of the fields of some particles.
MaxKeyRows == 2
MaxMergeRows == 2

ImageRef(n, path) == FormatIndex(n + 1) \o <<"@">> \o path

Particle(n, path, mic, x, y) ==
    (IMAGE_NAME :> Str(ImageRef(n, path))) @@ (IMAGE_INDEX :> Num(n))
    @@ (IMAGE_PATH :> Str(path)) @@ (IMAGE_BASENAME :> Str(Basename(path)))
    @@ (MICROGRAPH_NAME :> Str(mic)) @@ (MICROGRAPH_BASENAME :> Str(Basename(mic)))
    @@ (COORDX :> Num(x)) @@ (COORDY :> Num(y)) @@ (DEFOCUSU :> Num(1))

Particles ==
    {Particle(0, <<"d1", "/", "a", ".", "mrcs">>, <<"m1", "/", "x", ".", "mrc">>, 10, 20),
     Particle(0, <<"d2", "/", "a", ".", "mrcs">>, <<"m2", "/", "x", ".", "mrc">>, 10, 20),
     Particle(1, <<"d1", "/", "b", ".", "mrcs">>, <<"m1", "/", "y", ".", "mrc">>, 30, 40)}

KeySchemas ==
    {<<IMAGE_NAME, IMAGE_INDEX, IMAGE_PATH, IMAGE_BASENAME, MICROGRAPH_NAME,
       COORDX, COORDY, MICROGRAPH_BASENAME>>,
     <<MICROGRAPH_NAME, COORDX, COORDY, MICROGRAPH_BASENAME, DEFOCUSU>>,
     <<MICROGRAPH_NAME, COORDX, MICROGRAPH_BASENAME>>,
     <<MICROGRAPH_NAME, MICROGRAPH_BASENAME, DEFOCUSU>>,
     <<IMAGE_PATH, IMAGE_BASENAME, MICROGRAPH_BASENAME>>,
     <<IMAGE_BASENAME, IMAGE_INDEX, DEFOCUSU>>,
     <<MICROGRAPH_BASENAME, COORDX, COORDY>>,
     <<DEFOCUSU>>}

KeyTables ==
    {Table(cols, [i \in DOMAIN ps |-> [c \in Range(cols) |-> ps[i][c]]]) :
        cols \in KeySchemas, ps \in SeqsUpTo(Particles, MaxKeyRows)}

Thresholds == {DefaultThreshold, [num |-> 1, den |-> 1]}

ImageNames == {p[IMAGE_NAME] : p \in {q \in Particles : q[IMAGE_INDEX] = Num(0)}}

PrimaryRows ==
    {(IMAGE_NAME :> n) @@ (DEFOCUSU :> u) : n \in ImageNames, u \in {Num(1), NaN}}

SecondaryRows ==
    {(IMAGE_NAME :> n) @@ (DEFOCUSU :> u) @@ (DEFOCUSV :> Num(5)) :
        n \in ImageNames, u \in {Num(3), NaN}}

InitMerge ==
    /\ pc = "start"
    /\ \/ /\ s1 \in KeyTables
          /\ s2 \in KeyTables
          /\ fields = <<DEFOCUSU>>
          /\ key = None
          /\ threshold \in Thresholds
       \/ /\ s1 \in {Table(<<IMAGE_NAME, DEFOCUSU>>, rows) :
                        rows \in SeqsUpTo(PrimaryRows, MaxMergeRows)}
          /\ s2 \in {Table(<<IMAGE_NAME, DEFOCUSU, DEFOCUSV>>, rows) :
                        rows \in SeqsUpTo(SecondaryRows, MaxMergeRows)}
          /\ fields \in {<<DEFOCUSU>>, <<DEFOCUSV>>, <<DEFOCUSU, DEFOCUSV>>,
                         <<IMAGE_NAME, DEFOCUSU>>}
          /\ key \in {None, KeyName(IMAGE_NAME)}
          /\ threshold = DefaultThreshold
    /\ mk = None
    /\ merged = None
    /\ StarUnused
    /\ OpUnused

\* key = merge_key(s1, s2, threshold)
MergeKey ==
    /\ pc = "start"
    /\ mk' = merge_key(s1, s2, threshold)
    /\ pc' = "keyed"
    /\ UNCHANGED <<s1, s2, fields, key, threshold, merged, starVars, opVars>>

\* merged = smart_merge(s1, s2, fields, key)
SmartMerge ==
    /\ pc = "start"
    /\ merged' = smart_merge(s1, s2, fields, key, None)
    /\ pc' = "merged"
    /\ UNCHANGED <<s1, s2, fields, key, threshold, mk, starVars, opVars>>

NextMerge == MergeKey \/ SmartMerge

SpecMerge == InitMerge /\ [][NextMerge]_vars

\* the key smart_merge joins on
UsedKey == IF key = None THEN merge_key(s1, s2, DefaultThreshold) ELSE key

\* the key values are unique in secondary
UniqueInSecondary ==
    \A i, j \in DOMAIN s2.rows :
        KeyOf(s2.rows[i], KeyFields(UsedKey)) = KeyOf(s2.rows[j], KeyFields(UsedKey))
            => i = j

\* the record of secondary with the key values of primary's record i, if any
HasMatch(i) ==
    \E j \in DOMAIN s2.rows :
        KeyOf(s2.rows[j], KeyFields(UsedKey)) = KeyOf(s1.rows[i], KeyFields(UsedKey))

MatchOf(i) ==
    s2.rows[CHOOSE j \in DOMAIN s2.rows :
        KeyOf(s2.rows[j], KeyFields(UsedKey)) = KeyOf(s1.rows[i], KeyFields(UsedKey))]

\* the positions of primary's records that have a match, in order
MatchedAt == SelectSeq([i \in DOMAIN s1.rows |-> i], HasMatch)

Merged == pc = "merged" /\ IsTable(merged)

\* C1: with unique key values in secondary, the merged table has as many
\* records as primary, in primary's order, the records without a match in
\* secondary included.
C1_LeftJoinKeepsAll ==
    (Merged /\ UniqueInSecondary) =>
        /\ NRows(merged) = NRows(s1)
        /\ \A i \in DOMAIN s1.rows :
              KeyOf(merged.rows[i], KeyFields(UsedKey))
                  = KeyOf(s1.rows[i], KeyFields(UsedKey))

\* what the code does instead: exactly the matched records, in primary's order
MergeIsInnerJoin ==
    (Merged /\ UniqueInSecondary) =>
        /\ NRows(merged) = Len(MatchedAt)
        /\ \A i \in DOMAIN merged.rows :
              KeyOf(merged.rows[i], KeyFields(UsedKey))
                  = KeyOf(s1.rows[MatchedAt[i]], KeyFields(UsedKey))

\* the columns named in fields that both tables have
Collided == (Range(fields) \cap Range(s1.columns)) \cap Range(s2.columns)

OnceAndUnsuffixed(c) ==
    /\ Cardinality({j \in DOMAIN merged.columns : merged.columns[j] = c}) = 1
    /\ \A j \in DOMAIN merged.columns :
          ~(merged.columns[j] # c /\ Len(merged.columns[j]) > Len(c)
              /\ SubSeq(merged.columns[j], 1, Len(c)) = c)

MissingStaysMissing ==
    (Merged /\ UniqueInSecondary) =>
        \A c \in Collided : \A i \in DOMAIN merged.rows :
            MatchOf(MatchedAt[i])[c] = NaN => merged.rows[i][c] = NaN

\* the number of primary's records whose value of c occurs in secondary
CoveredRecords(c) ==
    Cardinality({i \in DOMAIN s1.rows :
                    \E j \in DOMAIN s2.rows : s2.rows[j][c] = s1.rows[i][c]})

RulePasses(c) ==
    /\ HasColumn(s1, c) /\ HasColumn(s2, c)
    /\ CoveredRecords(c) * threshold.den >= threshold.num * NRows(s1)

\* C3: merge_key returns the key of the first rule, in the order image
\* reference, image basename, micrograph name, micrograph basename, whose
\* column both tables have and whose coverage passes, and no key when none does.
C3_FirstPassingRule ==
    pc = "keyed" =>
        IF RulePasses(IMAGE_NAME) THEN mk = KeyName(IMAGE_NAME)
        ELSE IF RulePasses(IMAGE_BASENAME)
             THEN mk = KeyList(<<IMAGE_BASENAME, IMAGE_INDEX>>)
        ELSE IF RulePasses(MICROGRAPH_NAME)
             THEN mk \in {KeyList(MICROGRAPH_COORDS), KeyName(MICROGRAPH_NAME)}
        ELSE IF RulePasses(MICROGRAPH_BASENAME) THEN mk = KeyName(MICROGRAPH_BASENAME)
        ELSE mk = None

\* the image reference is shared and fails its coverage, and a later rule gave
\* the key
C3_Witness ==
    /\ pc = "keyed"
    /\ HasColumn(s1, IMAGE_NAME) /\ HasColumn(s2, IMAGE_NAME)
    /\ ~RulePasses(IMAGE_NAME)
    /\ NRows(s1) = 2
    /\ mk = KeyList(<<IMAGE_BASENAME, IMAGE_INDEX>>)

\* image reference and micrograph name both pass, and the image reference wins
C3_WitnessPriority ==
    /\ pc = "keyed"
    /\ RulePasses(IMAGE_NAME) /\ RulePasses(MICROGRAPH_NAME)
    /\ CoveredRecords(IMAGE_NAME) < NRows(s1)
    /\ mk = KeyName(IMAGE_NAME)

\* the micrograph basename rule is reached after the micrograph name failed
C3_WitnessLast ==
    /\ pc = "keyed"
    /\ HasColumn(s1, MICROGRAPH_NAME) /\ HasColumn(s2, MICROGRAPH_NAME)
    /\ ~RulePasses(MICROGRAPH_NAME)
    /\ mk = KeyName(MICROGRAPH_BASENAME)

\* the columns of the result that came in from secondary
Incoming == (Range(fields) \cap Range(s2.columns))

\* C7: with no key given and none inferred, smart_merge does not fail: it
\* returns primary's records with the incoming columns all missing.
C7_PermissiveMerge ==
    (pc = "merged" /\ key = None /\ merge_key(s1, s2, DefaultThreshold) = None) =>
        /\ IsTable(merged)
        /\ NRows(merged) = NRows(s1)
        /\ \A i \in DOMAIN merged.rows : \A c \in Incoming \ Range(s1.columns) :
              merged.rows[i][c] = NaN

\* C10: every field of an inferred key is a column of both tables.
C10_KeyFieldsShared ==
    (pc = "keyed" /\ mk # None) => Range(KeyFields(mk)) \subseteq Inter(s1, s2)

(***************************************************************************)
(* parse_star.  A file is a sequence of lines, a line a string without its *)
(* line end.                                                               *)
(***************************************************************************)
Flt(v) == [k |-> "flt", v |-> v]

\* Floating values are fixed-point numbers with FracDigits decimals, one more
\* than the 6 decimals that '%.6f' writes.
WrittenDigits == 6
FracDigits == WrittenDigits + 1

RECURSIVE Pow10(_)
Pow10(n) == IF n = 0 THEN 1 ELSE 10 * Pow10(n - 1)

\* the header of a line: l.strip() or l.split('#')[0].strip().lstrip('_')
HeadOf(l, keep) ==
    IF keep THEN Strip(l) ELSE LStrip("_", Strip(SplitFirst("#", l)))

\* a slip: the loop stops at the first line that is no header, whether or not a
\* header has been seen
RECURSIVE ScanHeaderNoFlag(_, _, _, _, _)
ScanHeaderNoFlag(lines, keep, i, foundheader, hs) ==
    IF i > Len(lines) THEN [headers |-> hs, ln |-> i - 1]
    ELSE LET isheader == StartsWith("_", Strip(lines[i]))
             hs2 == IF isheader THEN Append(hs, HeadOf(lines[i], keep)) ELSE hs
         IN  IF ~isheader THEN [headers |-> hs2, ln |-> i - 1]
             ELSE ScanHeaderNoFlag(lines, keep, i + 1, TRUE, hs2)

\* the header loop of parse_star over the lines from position i on
RECURSIVE ScanHeader(_, _, _, _, _)
ScanHeader(lines, keep, i, foundheader, hs) ==
    IF i > Len(lines) THEN [headers |-> hs, ln |-> i - 1]
    ELSE LET isheader == StartsWith("_", Strip(lines[i]))
             found == foundheader \/ isheader
             hs2 == IF isheader THEN Append(hs, HeadOf(lines[i], keep)) ELSE hs
         IN  IF found /\ ~isheader THEN [headers |-> hs2, ln |-> i - 1]
             ELSE ScanHeader(lines, keep, i + 1, found, hs2)

\* the white space separated tokens of a line
RECURSIVE Tokens(_)
Tokens(l) ==
    LET t == LStrip(" ", l)
    IN  IF t = <<>> THEN <<>>
        ELSE <<SplitFirst(" ", t)>> \o Tokens(SubSeq(t, FirstAt(" ", t), Len(t)))

IsDigits(tok) == tok # <<>> /\ \A i \in DOMAIN tok : tok[i] \in Range(Digits)

IsInteger(tok) == IsDigits(tok)

IsFloat(tok) ==
    /\ FirstAt(".", tok) <= Len(tok)
    /\ IsDigits(SubSeq(tok, 1, FirstAt(".", tok) - 1))
    /\ LET frac == SubSeq(tok, FirstAt(".", tok) + 1, Len(tok))
       IN frac = <<>> \/ IsDigits(frac)

\* float(tok), in units of 10^-FracDigits
FloatValue(tok) ==
    IF IsInteger(tok) THEN DigitsValue(tok) * Pow10(FracDigits)
    ELSE LET frac == SubSeq(tok, FirstAt(".", tok) + 1, Len(tok))
         IN DigitsValue(SubSeq(tok, 1, FirstAt(".", tok) - 1)) * Pow10(FracDigits)
            + DigitsValue(frac) * Pow10(FracDigits - Len(frac))

\* the values of a column read by read_csv: integers, floats, or strings
ColumnValues(toks) ==
    IF \A i \in DOMAIN toks : IsInteger(toks[i])
    THEN [i \in DOMAIN toks |-> Num(DigitsValue(toks[i]))]
    ELSE IF \A i \in DOMAIN toks : toks[i] = <<>> \/ IsInteger(toks[i]) \/ IsFloat(toks[i])
    THEN [i \in DOMAIN toks |-> IF toks[i] = <<>> THEN NaN ELSE Flt(FloatValue(toks[i]))]
    ELSE [i \in DOMAIN toks |-> IF toks[i] = <<>> THEN NaN ELSE Str(toks[i])]

\* pd.read_csv(skiprows=ln, delimiter='\s+', header=None): blank lines are
\* skipped, a short line is padded with missing values, a long one is an error
ReadCsv(lines, skiprows) ==
    LET data == SelectSeq(SubSeq(lines, skiprows + 1, Len(lines)),
                          LAMBDA l : Strip(l) # <<>>)
        toks == [i \in DOMAIN data |-> Tokens(data[i])]
    IN  IF data = <<>> THEN Raised("EmptyDataError")
        ELSE IF \E i \in DOMAIN toks : Len(toks[i]) > Len(toks[1])
        THEN Raised("ParserError")
        ELSE [k |-> "frame", ncols |-> Len(toks[1]),
              cols |-> [c \in 1..Len(toks[1]) |->
                          ColumnValues([i \in DOMAIN toks |->
                              IF c <= Len(toks[i]) THEN toks[i][c] ELSE <<>>])]]

INDEX == <<"index">>
LEVEL_0 == <<"level", "_", "0">>

\* df.reset_index(inplace=True): the old index becomes the first column
ResetIndex(t) ==
    LET name == IF HasColumn(t, INDEX) THEN LEVEL_0 ELSE INDEX
    IN  IF HasColumn(t, name) THEN Raised("ValueError")
        ELSE Table(<<name>> \o t.columns,
                   [i \in DOMAIN t.rows |->
                       [c \in Range(t.columns) \cup {name} |->
                           IF c = name THEN Num(i - 1) ELSE t.rows[i][c]]])

\* s.split("@")[0] and s.split("@")[1]
SplitIndex(s) == SplitFirst("@", s)
SplitPath(s) == SplitFirst("@", SubSeq(s, FirstAt("@", s) + 1, Len(s)))

\* the index and path columns of an image reference column; the index is
\* pd.to_numeric(...) - 1
CanSplit(t, c) ==
    \A i \in DOMAIN t.rows :
        /\ t.rows[i][c].k = "str"
        /\ FirstAt("@", t.rows[i][c].s) <= Len(t.rows[i][c].s)
        /\ IsDigits(SplitIndex(t.rows[i][c].s))

SplitRef(t, c, index, path) ==
    SetColumn(SetColumn(t, index,
                  [i \in DOMAIN t.rows |-> Num(DigitsValue(SplitIndex(t.rows[i][c].s)) - 1)]),
              path, [i \in DOMAIN t.rows |-> Str(SplitPath(t.rows[i][c].s))])

\* df[base] = df[path].apply(os.path.basename)
AddBasename(t, path, base) ==
    IF HasColumn(t, path)
    THEN SetColumn(t, base, [i \in DOMAIN t.rows |-> Str(Basename(t.rows[i][path].s))])
    ELSE t

augment_star_ucsf(t0) ==
    LET t1 == ResetIndex(t0)
    IN  IF IsRaised(t1) THEN t1
        ELSE IF HasColumn(t1, IMAGE_NAME) /\ ~CanSplit(t1, IMAGE_NAME)
        THEN Raised("ValueError")
        ELSE
        LET t2 == IF HasColumn(t1, IMAGE_NAME)
                  THEN LET u == SplitRef(t1, IMAGE_NAME, IMAGE_INDEX, IMAGE_PATH)
                       IN  IF ~HasColumn(u, IMAGE_ORIGINAL_NAME)
                           THEN SetColumn(u, IMAGE_ORIGINAL_NAME,
                                    [i \in DOMAIN u.rows |-> u.rows[i][IMAGE_NAME]])
                           ELSE u
                  ELSE t1
        IN  IF HasColumn(t2, IMAGE_ORIGINAL_NAME) /\ ~CanSplit(t2, IMAGE_ORIGINAL_NAME)
            THEN Raised("ValueError")
            ELSE
            LET t3 == IF HasColumn(t2, IMAGE_ORIGINAL_NAME)
                      THEN SplitRef(t2, IMAGE_ORIGINAL_NAME,
                                    IMAGE_ORIGINAL_INDEX, IMAGE_ORIGINAL_PATH)
                      ELSE t2
                t4 == AddBasename(t3, IMAGE_PATH, IMAGE_BASENAME)
                t5 == AddBasename(t4, IMAGE_ORIGINAL_PATH, IMAGE_ORIGINAL_BASENAME)
            IN  IF HasColumn(t5, MICROGRAPH_NAME)
                   /\ \E i \in DOMAIN t5.rows : t5.rows[i][MICROGRAPH_NAME].k # "str"
                THEN Raised("TypeError")
                ELSE AddBasename(t5, MICROGRAPH_NAME, MICROGRAPH_BASENAME)

HasDuplicates(seq) == \E i, j \in DOMAIN seq : i # j /\ seq[i] = seq[j]

\* parse_star(starfile, keep_index, augment=True, nrows=None).  Column names are
\* unique in a table of the model: a file that names a field twice is not
\* followed further.
parse_star(lines, keep) ==
    LET scan == ScanHeader(lines, keep, 1, FALSE, <<>>)
        frame == ReadCsv(lines, scan.ln)
    IN  IF IsRaised(frame) THEN frame
        ELSE IF frame.ncols # Len(scan.headers) THEN Raised("ValueError")
        ELSE IF HasDuplicates(scan.headers) THEN Raised("duplicate field")
        ELSE
        LET n == Len(frame.cols[1])
            t == Table(scan.headers,
                       [i \in 1..n |->
                           [c \in Range(scan.headers) |->
                               frame.cols[CHOOSE j \in DOMAIN scan.headers :
                                              scan.headers[j] = c][i]]])
            u == IF ~HasColumn(t, PHASESHIFT)
                 THEN SetColumn(t, PHASESHIFT, [i \in 1..n |-> Flt(0)])
                 ELSE t
        IN  augment_star_ucsf(u)

(***************************************************************************)
(* simplify_star_ucsf, sort_fields, write_star                             *)
(***************************************************************************)
\* "ucsf" in c or "eman" in c
IsDerived(c) == Contains(<<"ucsf">>, c) \/ Contains(<<"eman">>, c)

\* df[name] = df[index].map(lambda x: "%.6d" % (x + 1)).str.cat(df[path], sep="@")
JoinRef(t, name, index, path) ==
    IF HasColumn(t, index) /\ HasColumn(t, path)
    THEN SetColumn(t, name,
             [i \in DOMAIN t.rows |->
                 Str(FormatIndex(t.rows[i][index].v + 1) \o <<"@">> \o t.rows[i][path].s)])
    ELSE t

\* simplify_star_ucsf(df, resort_index=False, inplace=True)
simplify_star_ucsf(t) ==
    LET t1 == JoinRef(t, IMAGE_ORIGINAL_NAME, IMAGE_ORIGINAL_INDEX, IMAGE_ORIGINAL_PATH)
        t2 == JoinRef(t1, IMAGE_NAME, IMAGE_INDEX, IMAGE_PATH)
        t3 == DropColumns(t2, {c \in Range(t2.columns) : IsDerived(c)})
    IN  IF HasColumn(t3, INDEX) THEN DropColumns(t3, {INDEX}) ELSE t3

\* Relion.FIELD_ORDER; its last entry is the concatenation of three names
FIELD_ORDER ==
    <<IMAGE_NAME, IMAGE_ORIGINAL_NAME, MICROGRAPH_NAME, <<"rln", "MicrographNameNoDW">>,
      COORDX, COORDY,
      <<"rln", "AngleRot">>, <<"rln", "AngleTilt">>, <<"rln", "AnglePsi">>,
      ORIGINX, ORIGINY, <<"rln", "OriginZ">>,
      <<"rln", "Voltage">>, <<"rln", "Magnification">>, <<"rln", "DetectorPixelSize">>,
      DEFOCUSU, DEFOCUSV, <<"rln", "DefocusAngle">>, <<"rln", "SphericalAberration">>,
      PHASESHIFT, <<"rln", "AmplitudeContrast">>, <<"rln", "BeamTiltX">>,
      <<"rln", "BeamTiltY">>, <<"rln", "BeamTiltClass">>, <<"rln", "CtfScalefactor">>,
      <<"rln", "CtfBfactor">>, <<"rln", "CtfMaxResolution">>,
      <<"rln", "CtfFigureOfMerit">>,
      CLASS \o <<"rln", "GroupNumber">> \o <<"rln", "RandomSubset">> >>

\* sort_fields(df, inplace=True): a reindexed copy, df itself keeps its order
sort_fields(t) ==
    Reindex(t, SelectSeq(FIELD_ORDER, LAMBDA c : HasColumn(t, c))
               \o SelectSeq(t.columns, LAMBDA c : c \notin Range(FIELD_ORDER)))

\* '%.6f' % v
FormatFloat(v) ==
    LET step == Pow10(FracDigits - WrittenDigits)
        q == (v + step \div 2) \div step
    IN  Decimal(q \div Pow10(WrittenDigits)) \o <<".">>
        \o ZeroPad(Decimal(q % Pow10(WrittenDigits)), WrittenDigits)

\* a value as to_csv(float_format='%.6f') writes it
FormatCell(x) ==
    IF x.k = "str" THEN x.s
    ELSE IF x.k = "num" THEN (IF x.v < 0 THEN <<"-">> \o Decimal(0 - x.v) ELSE Decimal(x.v))
    ELSE IF x.k = "flt" THEN FormatFloat(x.v)
    ELSE <<>>

RECURSIVE Join(_, _)
Join(sep, ss) ==
    IF ss = <<>> THEN <<>>
    ELSE IF Len(ss) = 1 THEN ss[1]
    ELSE ss[1] \o sep \o Join(sep, Tail(ss))

\* re.search("#\d+$", name) is not None
IsIndexed(name) ==
    LET h == LastAt("#", name)
    IN  h > 0 /\ h < Len(name) /\ IsDigits(SubSeq(name, h + 1, Len(name)))

\* write_star(starfile, df, resort_fields, resort_records=False, simplify):
\* the lines written, and the caller's table as the call leaves it
write_star(t, resort, simpl) ==
    LET simplified == simpl /\ \E c \in Range(t.columns) : IsDerived(c)
        t1 == IF simplified THEN simplify_star_ucsf(t) ELSE t
        indexed == IsIndexed(t1.columns[1])
        t2 == IF ~indexed /\ resort THEN sort_fields(t1) ELSE t1
        names == IF ~indexed
                 THEN [i \in DOMAIN t2.columns |-> t2.columns[i] \o <<" ", "#">> \o Decimal(i)]
                 ELSE t2.columns
        line(name) == IF StartsWith("_", name \o <<" ">>) THEN name \o <<" ">>
                      ELSE <<"_">> \o name \o <<" ">>
    IN  [file |-> << <<>>, <<"data", "_", "images">>, <<>>, <<"loop", "_">> >>
                  \o [i \in DOMAIN names |-> line(names[i])]
                  \o [i \in DOMAIN t2.rows |->
                        Join(<<" ">>, [j \in DOMAIN t2.columns |->
                                          FormatCell(t2.rows[i][t2.columns[j]])])],
         df |-> t1]

\* The inputs: files written in the STAR layout, and arbitrary runs of lines.
MaxFileRows == 2
MaxLines == 4

HeaderLine(name, i) == <<"_">> \o name \o <<" ", "#">> \o Decimal(i) \o <<" ">>

StarFile(cols, rows) ==
    << <<>>, <<"data", "_", "images">>, <<>>, <<"loop", "_">> >>
    \o [i \in DOMAIN cols |-> HeaderLine(cols[i], i)]
    \o [i \in DOMAIN rows |-> Join(<<" ">>, [j \in DOMAIN cols |-> rows[i][cols[j]]])]

PathA == <<"d1", "/", "a", ".", "mrcs">>

FieldTokens(c) ==
    IF c = IMAGE_NAME
    THEN {<<"0", "0", "0", "0", "0", "1", "@">> \o PathA, <<"1", "@">> \o PathA,
          <<"0", "0", "0", "0", "0", "2", "@", "b", ".", "mrcs">>}
    ELSE IF c = IMAGE_ORIGINAL_NAME
    THEN {<<"0", "0", "0", "0", "0", "3", "@", "o", ".", "mrcs">>,
          <<"0", "3", "@", "o", ".", "mrcs">>}
    ELSE IF c = MICROGRAPH_NAME THEN {<<"m1", "/", "x", ".", "mrc">>}
    ELSE IF c = COORDX
    THEN {<<"1", "0">>, <<"2", ".", "5">>, <<"0", ".", "1", "2", "3", "4", "5", "6", "7">>}
    ELSE IF c = COORDY THEN {<<"2", "0">>}
    ELSE {<<"0", ".", "5">>}

FileSchemas ==
    {<<COORDX, COORDY, IMAGE_NAME>>,
     <<IMAGE_NAME, MICROGRAPH_NAME, COORDX>>,
     <<COORDX, COORDY>>,
     <<MICROGRAPH_NAME, COORDX>>,
     <<IMAGE_NAME, IMAGE_ORIGINAL_NAME, PHASESHIFT>>}

FileRows(cols) == {r \in [Range(cols) -> UNION {FieldTokens(c) : c \in Range(cols)}] :
                      \A c \in Range(cols) : r[c] \in FieldTokens(c)}

StarFiles ==
    UNION {{StarFile(cols, rows) : rows \in SeqsUpTo(FileRows(cols), MaxFileRows) \ {<<>>}} :
              cols \in FileSchemas}

LineKinds ==
    {<<>>, <<"loop", "_">>,
     <<"_", "rln", "CoordinateX", " ", "#", "1", " ">>,
     <<" ", "_", "rln", "CoordinateY">>,
     <<"_", "_", "rln", "Voltage", "#", "3">>,
     <<"1", "0", " ", "2", "0">>,
     <<" ", "3", "0">>}

ScanFiles == SeqsUpTo(LineKinds, MaxLines)

InitStar ==
    /\ pc = "start"
    /\ \/ /\ f \in StarFiles
          /\ keep_index \in BOOLEAN
          /\ resort_fields \in BOOLEAN
          /\ simplify \in BOOLEAN
       \/ /\ f \in ScanFiles
          /\ keep_index \in BOOLEAN
          /\ resort_fields = TRUE
          /\ simplify = TRUE
    /\ ln = None /\ headers = None /\ df = None /\ snap = None
    /\ f2 = None /\ df2 = None
    /\ MergeUnused
    /\ OpUnused

\* df = parse_star(f, keep_index); headers and ln are the function's locals
ParseStar ==
    /\ pc = "start"
    /\ headers' = ScanHeader(f, keep_index, 1, FALSE, <<>>).headers
    /\ ln' = ScanHeader(f, keep_index, 1, FALSE, <<>>).ln
    /\ df' = parse_star(f, keep_index)
    /\ pc' = IF IsRaised(df') THEN "failed" ELSE "parsed"
    /\ UNCHANGED <<f, keep_index, resort_fields, simplify, snap, f2, df2,
                   mergeVars, opVars>>

\* write_star(f2, df, resort_fields, False, simplify); snap remembers the table
\* as it was passed in
WriteStar ==
    /\ pc = "parsed"
    /\ snap' = df
    /\ f2' = write_star(df, resort_fields, simplify).file
    /\ df' = write_star(df, resort_fields, simplify).df
    /\ pc' = "written"
    /\ UNCHANGED <<f, keep_index, resort_fields, simplify, ln, headers, df2,
                   mergeVars, opVars>>

\* df2 = parse_star(f2, keep_index)
ReparseStar ==
    /\ pc = "written"
    /\ df2' = parse_star(f2, keep_index)
    /\ pc' = "reparsed"
    /\ UNCHANGED <<f, keep_index, resort_fields, simplify, ln, headers, df, snap, f2,
                   mergeVars, opVars>>

NextStar == ParseStar \/ WriteStar \/ ReparseStar

SpecStar == InitStar /\ [][NextStar]_vars

\* l is all white space up to position i
BlankBefore(l, i) == \A j \in 1..(i - 1) : l[j] = " "

\* the line begins with "_"
BeginsWithUnderscore(l) == l # <<>> /\ l[1] = "_"

\* the line begins with "_" once its leading white space is removed
BeginsWithUnderscoreStripped(l) == \E i \in DOMAIN l : l[i] = "_" /\ BlankBefore(l, i)

\* h is the name on header line l: what lies between the leading underscores
\* and the "#" suffix (or the line's end), without the white space around it
IsNameOn(h, l) ==
    \E a \in 1..(Len(l) + 1) : \E b \in (a - 1)..Len(l) :
        /\ h = SubSeq(l, a, b)
        /\ \E u \in 1..(a - 1) :
              /\ BlankBefore(l, u)
              /\ \A j \in u..(a - 1) : l[j] = "_"
        /\ h = <<>> \/ (h[1] # "_" /\ h[Len(h)] # " ")
        /\ \A j \in DOMAIN h : h[j] # "#"
        /\ \E e \in b..Len(l) :
              /\ \A j \in (b + 1)..e : l[j] = " "
              /\ e = Len(l) \/ l[e + 1] = "#"

\* the header scan, for a notion of header line: the lines before the first
\* header line are passed over, the names are those of the first maximal run of
\* header lines, in order, and ln is the number of lines up to and including the
\* last line of that run
ScanIsFirstRun(IsHeader(_)) ==
    pc # "start" =>
        LET H == {i \in DOMAIN f : IsHeader(f[i])}
        IN  IF H = {} THEN headers = <<>>
            ELSE LET first == CHOOSE i \in H : \A j \in H : i <= j
                     last == CHOOSE j \in first..Len(f) :
                                /\ \A n \in first..j : n \in H
                                /\ (j + 1) \notin H
                 IN  /\ ln = last
                     /\ Len(headers) = last - first + 1
                     /\ keep_index = FALSE =>
                           \A n \in DOMAIN headers : IsNameOn(headers[n], f[first + n - 1])

\* C5, as stated: a header line is a line beginning with "_".
C5_HeaderRun == ScanIsFirstRun(BeginsWithUnderscore)

\* C5, amended: a header line is a line beginning with "_" once its leading
\* white space is removed (the scan tests l.strip().startswith("_")); with that
\* notion the scan passes over the lines before the first header line, collects
\* the names of the first maximal run of header lines in order, and skips
\* exactly the lines up to and including the last line of that run; with
\* keep_index false each name has the leading underscores and the "#" suffix
\* removed.
C5_HeaderRunStripped == ScanIsFirstRun(BeginsWithUnderscoreStripped)

\* a file with lines before its header run, a run of two or more header lines
\* with "#" suffixes, and data after it has been scanned
C5_Witness ==
    /\ pc = "parsed" /\ keep_index = FALSE
    /\ Len(headers) >= 2
    /\ ln > Len(headers) /\ ln < Len(f)
    /\ \E j \in DOMAIN f[ln] : f[ln][j] = "#"

WrittenStep == Pow10(FracDigits - WrittenDigits)

\* equal up to the rounding to 6 decimals
SameValue(x, y) ==
    IF x.k = "flt" /\ y.k = "flt"
    THEN (x.v + WrittenStep \div 2) \div WrittenStep
             = (y.v + WrittenStep \div 2) \div WrittenStep
    ELSE x = y

\* the same columns, in any order, and the same values
SameTable(a, b) ==
    /\ IsTable(a) /\ IsTable(b)
    /\ Range(a.columns) = Range(b.columns)
    /\ NRows(a) = NRows(b)
    /\ \A i \in DOMAIN a.rows : \A c \in Range(a.columns) :
          SameValue(a.rows[i][c], b.rows[i][c])

DefaultOptions == keep_index = FALSE /\ resort_fields = TRUE /\ simplify = TRUE

\* f is well formed: a header run, then one or more data lines, each with
\* one token per field and none looking like a header line
WellFormed ==
    /\ Len(headers) >= 1 /\ ~HasDuplicates(headers)
    /\ ln < Len(f)
    /\ \A i \in (ln + 1)..Len(f) :
          /\ ~BeginsWithUnderscoreStripped(f[i])
          /\ Len(Tokens(f[i])) = Len(headers)

CanonicalRefs(t) ==
    \A c \in {IMAGE_NAME, IMAGE_ORIGINAL_NAME} \cap Range(t.columns) :
        \A i \in DOMAIN t.rows : Len(SplitIndex(t.rows[i][c].s)) = IndexWidth

\* f names an image reference or a micrograph name, so that the parse derives
\* columns from it
NamesImageOrMicrograph ==
    {IMAGE_NAME, IMAGE_ORIGINAL_NAME, MICROGRAPH_NAME} \cap Range(headers) # {}

\* an image reference comes back with the same path and the same index number,
\* the index written with 6 digits
SameRef(x, y) ==
    /\ SplitPath(y.s) = SplitPath(x.s)
    /\ DigitsValue(SplitIndex(y.s)) = DigitsValue(SplitIndex(x.s))
    /\ Len(SplitIndex(y.s)) = IndexWidth

C4_WitnessUnpadded ==
    /\ pc = "reparsed" /\ DefaultOptions /\ WellFormed
    /\ HasColumn(snap, IMAGE_NAME) /\ ~CanonicalRefs(snap)
    /\ \E i \in DOMAIN snap.rows : snap.rows[i][IMAGE_NAME] # df2.rows[i][IMAGE_NAME]

\* C9: write_star leaves the caller's table as it was passed in.
C9_WriteLeavesTable ==
    (pc = "written" /\ DefaultOptions) => df = snap

(***************************************************************************)
(* recenter: origins and coordinates are fixed-point numbers, counted in   *)
(* units of 1/OriginDen pixel.                                             *)
(***************************************************************************)
OriginDen == 4
MaxOrigin == 6
MaxRecRows == 2

\* the truncation of math.modf, as recenter_modf uses it
TruncRound(x) == IF x >= 0 THEN (x \div OriginDen) * OriginDen
                 ELSE -(((-x) \div OriginDen) * OriginDen)

\* np.round: to the nearest integer, a tie to the even one
NpRound(x) ==
    LET q == x \div OriginDen
        r == x % OriginDen
    IN  IF 2 * r < OriginDen THEN q * OriginDen
        ELSE IF 2 * r > OriginDen THEN (q + 1) * OriginDen
        ELSE IF q % 2 = 0 THEN q * OriginDen
        ELSE (q + 1) * OriginDen

recenter(t) ==
    LET intoff(r) == [c \in {ORIGINX, ORIGINY} |-> NpRound(r[c])]
        diffxy(r) == [c \in {ORIGINX, ORIGINY} |-> r[c] - intoff(r)[c]]
    IN  Table(t.columns,
              [i \in DOMAIN t.rows |->
                  LET r == t.rows[i]
                  IN [c \in DOMAIN r |->
                        IF c = COORDX THEN r[COORDX] - intoff(r)[ORIGINX]
                        ELSE IF c = COORDY THEN r[COORDY] - intoff(r)[ORIGINY]
                        ELSE IF c \in {ORIGINX, ORIGINY} THEN diffxy(r)[c]
                        ELSE r[c]]])

Origins == (0 - MaxOrigin)..MaxOrigin

RecenterColumns == <<COORDX, COORDY, ORIGINX, ORIGINY>>

RecenterRow(cx, cy, ox, oy) ==
    [c \in Range(RecenterColumns) |->
        IF c = COORDX THEN cx ELSE IF c = COORDY THEN cy
        ELSE IF c = ORIGINX THEN ox ELSE oy]

RecenterRows ==
    {RecenterRow(40, 12, ox, oy) : ox \in Origins, oy \in {0 - MaxOrigin, 1}}
    \cup {RecenterRow(3, 0, 1, oy) : oy \in Origins}

RecenterTables ==
    {Table(RecenterColumns, rows) : rows \in SeqsUpTo(RecenterRows, MaxRecRows) \ {<<>>}}

InitRecenter ==
    /\ pc = "start"
    /\ tbl \in RecenterTables
    /\ inplace \in BOOLEAN
    /\ classes = None
    /\ res = None
    /\ MergeUnused
    /\ StarUnused

Recenter ==
    /\ pc = "start"
    /\ res' = recenter(tbl)
    /\ tbl' = IF inplace THEN res' ELSE tbl
    /\ pc' = "done"
    /\ UNCHANGED <<classes, inplace, mergeVars, starVars>>

NextRecenter == Recenter

SpecRecenter == InitRecenter /\ [][NextRecenter]_vars

Abs(x) == IF x >= 0 THEN x ELSE 0 - x

RecenterAxes == {<<COORDX, ORIGINX>>, <<COORDY, ORIGINY>>}

\* C6, as stated: after recenter every origin has magnitude <= 0.5 and, for
\* each record and axis, coordinate + origin is what it was before the call.
C6_SumConserved ==
    [][Recenter =>
        \A i \in DOMAIN tbl.rows : \A ax \in RecenterAxes :
            /\ 2 * Abs(res'.rows[i][ax[2]]) <= OriginDen
            /\ res'.rows[i][ax[1]] + res'.rows[i][ax[2]]
                 = tbl.rows[i][ax[1]] + tbl.rows[i][ax[2]]]_vars

\* C6, amended: after recenter every origin has magnitude <= 0.5 and, for each
\* record and axis, coordinate - origin (the particle's position) is what it
\* was before the call; both coordinate and origin decrease by the rounded
\* origin.
C6_DifferenceConserved ==
    [][Recenter =>
        /\ DOMAIN res'.rows = DOMAIN tbl.rows
        /\ \A i \in DOMAIN tbl.rows : \A ax \in RecenterAxes :
            /\ 2 * Abs(res'.rows[i][ax[2]]) <= OriginDen
            /\ res'.rows[i][ax[1]] - res'.rows[i][ax[2]]
                 = tbl.rows[i][ax[1]] - tbl.rows[i][ax[2]]]_vars

\* a record whose origin exceeds half a pixel has been recentred, and its
\* coordinate moved
C6_Witness ==
    /\ pc = "done"
    /\ inplace = FALSE
    /\ \E i \in DOMAIN tbl.rows :
          /\ 2 * Abs(tbl.rows[i][ORIGINX]) > OriginDen
          /\ res.rows[i][COORDX] # tbl.rows[i][COORDX]
          /\ res.rows[i][ORIGINX] # 0

(***************************************************************************)
(* select_classes                                                          *)
(***************************************************************************)
MaxSelRows == 2
MaxClass == 2

CLASSDISTRIBUTION == <<"rln", "Class", "Distribution">>
CLASSNUMBERPRIOR == <<"rln", "Class", "Number", "Prior">>

\* a slip: the last class column is consulted instead of the first
select_classes_last(t, cls) ==
    LET isclass(c) == Contains(CLASS, c)
        clsfields == SelectSeq(t.columns, isclass)
        ind(r) == r[clsfields[Len(clsfields)]] \in cls
    IN  IF Len(clsfields) = 0 THEN Raised("No class labels found")
        ELSE IF ~ \E i \in DOMAIN t.rows : ind(t.rows[i])
             THEN Raised("Specified classes have no members")
        ELSE Table(t.columns, SelectSeq(t.rows, ind))

select_classes(t, cls) ==
    LET isclass(c) == Contains(CLASS, c)
        clsfields == SelectSeq(t.columns, isclass)
        ind(r) == r[clsfields[1]] \in cls
    IN  IF Len(clsfields) = 0 THEN Raised("No class labels found")
        ELSE IF ~ \E i \in DOMAIN t.rows : ind(t.rows[i])
             THEN Raised("Specified classes have no members")
        ELSE Table(t.columns, SelectSeq(t.rows, ind))

SelectSchemas ==
    {<<COORDX>>, <<COORDX, CLASSDISTRIBUTION>>, <<CLASS, COORDX>>, <<COORDX, CLASS>>,
     <<CLASSNUMBERPRIOR, CLASS>>, <<CLASS, CLASSNUMBERPRIOR>>}

InitSelect ==
    /\ pc = "start"
    /\ \E cols \in SelectSchemas :
          \E rows \in SeqsUpTo([Range(cols) -> 1..MaxClass], MaxSelRows) :
              tbl = Table(cols, rows)
    /\ classes \in SUBSET (1..MaxClass \cup {99})
    /\ inplace = None
    /\ res = None
    /\ MergeUnused
    /\ StarUnused

SelectClasses ==
    /\ pc = "start"
    /\ res' = select_classes(tbl, classes)
    /\ pc' = "done"
    /\ UNCHANGED <<tbl, classes, inplace, mergeVars, starVars>>

NextSelect == SelectClasses

SpecSelect == InitSelect /\ [][NextSelect]_vars

\* the positions of the columns whose name contains the class-label marker
ClassColumnsAt(t) == {i \in DOMAIN t.columns : Contains(CLASS, t.columns[i])}

FirstClassColumn(t) ==
    t.columns[CHOOSE i \in ClassColumnsAt(t) : \A j \in ClassColumnsAt(t) : i <= j]

\* rows holds exactly the records of t at the positions in P, in t's order
IsSelection(rows, t, P) ==
    \E at \in [1..Cardinality(P) -> P] :
        /\ \A a, b \in DOMAIN at : a < b => at[a] < at[b]
        /\ rows = [j \in DOMAIN at |-> t.rows[at[j]]]

\* C8: select_classes fails with the not-found error when no column name
\* contains the class marker, with the empty-result error when no record's
\* value in the first class column is among the classes, and otherwise returns
\* exactly the records whose value in the first class column is among the
\* classes, in their order; the input table is left as it was.
C8_SelectByClass ==
    [][SelectClasses =>
        /\ tbl' = tbl
        /\ IF ClassColumnsAt(tbl) = {}
           THEN res' = Raised("No class labels found")
           ELSE LET c == FirstClassColumn(tbl)
                    P == {i \in DOMAIN tbl.rows : tbl.rows[i][c] \in classes}
                IN  IF P = {} THEN res' = Raised("Specified classes have no members")
                    ELSE /\ IsTable(res')
                         /\ res'.columns = tbl.columns
                         /\ IsSelection(res'.rows, tbl, P)]_vars

\* a table with two class columns has been filtered to a proper, non-empty part
C8_Witness ==
    /\ pc = "done"
    /\ Cardinality(ClassColumnsAt(tbl)) = 2
    /\ IsTable(res)
    /\ 0 < NRows(res) /\ NRows(res) < NRows(tbl)

\* a table without class column has been refused
C8_WitnessNotFound ==
    pc = "done" /\ ClassColumnsAt(tbl) = {} /\ IsRaised(res)

====
